---- MODULE Spec2Model ----
(***************************************************************************)
(* Model of the S3/MinIO storage client: the staging-then-copy writer      *)
(* (StorageClient._put_bytes_atomic), its callers put_csv / put_parquet,   *)
(* the ingest command, validation and object key construction.             *)
(*                                                                         *)
(* Strings that the code builds or takes apart (object keys) are sequences *)
(* of one-character strings, so that rstrip, basename and number           *)
(* formatting are computed as the code computes them.                      *)
(***************************************************************************)
EXTENDS Integers, Sequences, FiniteSets, TLC

\* ------------------------------------------------------------------ bounds
\* The wall clock is explored up to second MaxSec, and within each second
\* up to millisecond MaxMs.
MaxSec == 1
MaxMs == 1
\* Largest row count of a generated data set.
MaxRows == 1

\* ------------------------------------------------------- program constants
\* time.time() counts seconds; the staging key uses int(time.time()*1000).
MsPerSec == 1000
\* The width of the part number in an object key ({part:05d}).
PartWidth == 5
\* HTTP status of a head on a missing key.
NotFoundStatus == 404

\* --------------------------------------------------------------- strings
Digit == <<"0","1","2","3","4","5","6","7","8","9">>

RECURSIVE Digits(_)
\* str(n) for n >= 0
Digits(n) == IF n < 10 THEN <<Digit[n + 1]>> ELSE Digits(n \div 10) \o <<Digit[(n % 10) + 1]>>

RECURSIVE ZeroPad(_, _)
\* left-pad with "0" up to a minimum width; longer strings are kept whole
ZeroPad(s, width) == IF Len(s) >= width THEN s ELSE ZeroPad(<<"0">> \o s, width)

\* a variant of Format05d that leaves the part number unpadded ({part})
FormatUnpadded(part) == IF part < 0 THEN <<"-">> \o Digits(0 - part) ELSE Digits(part)

\* format(part, "05d"): the sign counts in the width
Format05d(part) ==
    IF part < 0 THEN <<"-">> \o ZeroPad(Digits(0 - part), PartWidth - 1)
    ELSE ZeroPad(Digits(part), PartWidth)

RECURSIVE RStripSlash(_)
\* str.rstrip('/')
RStripSlash(s) ==
    IF Len(s) > 0 /\ s[Len(s)] = "/" THEN RStripSlash(SubSeq(s, 1, Len(s) - 1)) ELSE s

RECURSIVE Basename(_)
\* os.path.basename: what follows the last "/"
Basename(s) ==
    IF Len(s) = 0 THEN <<>>
    ELSE IF s[Len(s)] = "/" THEN <<>>
    ELSE Basename(SubSeq(s, 1, Len(s) - 1)) \o <<s[Len(s)]>>

CSV == <<"c","s","v">>
PARQUET == <<"p","a","r","q","u","e","t">>
GZIP == <<"g","z","i","p">>
NONE == <<"n","o","n","e">>
\* An Optional argument that is not given (None). Every use of such an
\* argument in the code is `x or default` or a comparison with a non-empty
\* string, under which None and the empty value behave alike.
Nothing == <<>>

\* cli.partitioned_key
partitioned_key(prefix, dataset, day, ext, part, compress) ==
    LET suffix == IF compress = GZIP /\ ext = CSV
                  THEN <<".","c","s","v",".","g","z">>
                  ELSE <<".">> \o ext
    IN  RStripSlash(prefix) \o <<"/">> \o dataset \o <<"/","d","a","t","e","=">> \o day
            \o <<"/","p","a","r","t","-">> \o Format05d(part) \o suffix

\* ------------------------------------------------------------ data frames
RideColumns ==
    <<"ride_id", "user_id", "driver_id", "pickup_ts", "dropoff_ts",
      "distance_km", "fare_usd", "city", "status">>

\* dataset.generate_rides: the cell values are fixed by (n, day), the random
\* generator being seeded with a constant.
generate_rides(n, day) == [columns |-> RideColumns, nrows |-> n, cells |-> <<n, day>>]

\* pd.DataFrame({"a": [1, 2, 3]}) of the tests
TestFrame == [columns |-> <<"a">>, nrows |-> 3, cells |-> <<1, 2, 3>>]
\* a frame with an index and no column; pandas calls it empty
NoColumnFrame == [columns |-> <<>>, nrows |-> 3, cells |-> <<>>]

\* DataFrame.empty: any axis of length 0
Empty(df) == df.nrows = 0 \/ Len(df.columns) = 0

Elems(s) == {s[i] : i \in 1..Len(s)}

\* [c for c in required_columns if c not in df.columns]
Missing(df, required_columns) ==
    SelectSeq(required_columns, LAMBDA c : c \notin Elems(df.columns))

\* a variant of basic_validate that looks for missing columns first
basic_validate_missing_first(df, required_columns) ==
    IF Missing(df, required_columns) # <<>>
    THEN [error |-> "ValueError",
          message |-> <<"Missing required columns">> \o Missing(df, required_columns)]
    ELSE IF Empty(df) THEN [error |-> "ValueError", message |-> <<"DataFrame is empty.">>]
         ELSE [error |-> "ok", message |-> <<>>]

\* validate.basic_validate: the error it raises, or "ok"
basic_validate(df, required_columns) ==
    IF Empty(df) THEN [error |-> "ValueError", message |-> <<"DataFrame is empty.">>]
    ELSE IF Missing(df, required_columns) # <<>>
         THEN [error |-> "ValueError",
               message |-> <<"Missing required columns">> \o Missing(df, required_columns)]
         ELSE [error |-> "ok", message |-> <<>>]

\* --------------------------------------------------------------- encoders
\* DataFrame.to_csv(index=False).encode("utf-8"): a header line and the rows
to_csv(df) == [format |-> "csv", header |-> df.columns, body |-> df.cells, gz |-> <<>>]

\* gzip.GzipFile(fileobj=buf, mode="wb"): the header holds int(time.time())
\* of the moment the container is built
gzip_bytes(raw, clock) == [raw EXCEPT !.gz = <<clock \div MsPerSec>>]

\* DataFrame.to_parquet(buf, index=False), read back through bytesio_copy
to_parquet(df) == [format |-> "parquet", header |-> df.columns, body |-> df.cells, gz |-> <<>>]

\* hashing.sha256_bytes: collision resistance taken as injectivity
sha256_bytes(bytes) == [sha256 |-> bytes]

\* ------------------------------------------------------------ object store
\* The bucket is a function from the keys that exist to their objects.
Obj(bytes, meta, tags) == [bytes |-> bytes, meta |-> meta, tags |-> tags]

\* {**metadata, "content_sha256": content_sha}
WithSha(metadata, content_sha) ==
    [k \in DOMAIN metadata \cup {"content_sha256"} |->
        IF k = "content_sha256" THEN content_sha ELSE metadata[k]]

\* put of one object (upload_fileobj, or the destination of a copy)
PutObject(s, k, o) == [x \in DOMAIN s \cup {k} |-> IF x = k THEN o ELSE s[x]]

\* copy_object: the bytes are those the source key holds when the copy runs;
\* metadata and tags are the request's under directive REPLACE and the
\* source's under COPY, which is the directive of a request that names none
CopyObject(s, src, dst, MetadataDirective, Metadata, TaggingDirective, Tagging) ==
    PutObject(s, dst,
        Obj(s[src].bytes,
            IF MetadataDirective = "REPLACE" THEN Metadata ELSE s[src].meta,
            IF TaggingDirective = "REPLACE" THEN Tagging ELSE s[src].tags))

\* delete_object: deleting a missing key succeeds
DeleteObject(s, k) == [x \in DOMAIN s \ {k} |-> s[x]]

\* the object a key holds, as an optional value
Lookup(s, k) == IF k \in DOMAIN s THEN <<s[k]>> ELSE <<>>

\* f"staging/{int(time.time()*1000)}-{os.path.basename(final_key)}"
StagingKey(clock, final_key) ==
    <<"s","t","a","g","i","n","g","/">> \o Digits(clock) \o <<"-">> \o Basename(final_key)

\* ------------------------------------------------------------------ inputs
Writers == {"w1", "w2"}

RIDES == <<"r","i","d","e","s">>
ORDERS == <<"o","r","d","e","r","s">>
Day1 == <<"2","0","2","5","-","0","9","-","2","1">>
Day2 == <<"2","0","2","5","-","0","9","-","2","2">>
Days == {Day1, Day2}

\* config.Settings defaults
DATASET_NAME == RIDES
DEFAULT_PREFIX == <<"c","u","r","a","t","e","d","/">>

\* statuses of a request that fails for another reason than a missing key
ErrStatuses == {403, 500}

\* the key of the tests: curated/rides/date=2025-09-21/part-00000.csv.gz
TestKey == partitioned_key(<<"c","u","r","a","t","e","d">>, RIDES, Day1, CSV, 0, GZIP)

\* the key of test_presign_get_put: some/key.txt
SomeKey == <<"s","o","m","e","/","k","e","y",".","t","x","t">>

\* The arguments of one put_csv / put_parquet call.
PutCall(via, api, df, key, compress, required_columns, tags, metadata) ==
    [via |-> via, api |-> api, df |-> df, key |-> key, compress |-> compress,
     required_columns |-> required_columns, tags |-> tags, metadata |-> metadata]

NoFrame == [columns |-> <<>>, nrows |-> 0, cells |-> <<>>]
NoCall == PutCall("none", "none", NoFrame, <<>>, Nothing, Nothing, <<>>, <<>>)

\* calls made on the client directly, as the tests do
LibCalls ==
    { PutCall("lib", api, df, TestKey, IF api = "put_csv" THEN GZIP ELSE Nothing,
              required_columns, opts[1], opts[2]) :
        api \in {"put_csv", "put_parquet"},
        df \in {TestFrame, NoColumnFrame},
        required_columns \in {Nothing, <<"a", "missing_col">>},
        opts \in {<<Nothing, Nothing>>,
                  <<[env |-> "prod"], [schema_version |-> "2"]>>} }

\* the call of the tests: put_csv(df, key, compress="gzip")
TestCall == PutCall("lib", "put_csv", TestFrame, TestKey, GZIP, Nothing, Nothing, Nothing)

\* the options of an ingest command line
CommandLine(dataset, n, day, fmt, compress, target_prefix, env_tag) ==
    [dataset |-> dataset, n |-> n, day |-> day, fmt |-> fmt, compress |-> compress,
     target_prefix |-> target_prefix, env_tag |-> env_tag]

CommandLines ==
    { CommandLine(dataset, n, day, fmt, compress, Nothing, env_tag) :
        dataset \in {Nothing, ORDERS}, n \in 0..MaxRows, day \in Days,
        fmt \in {CSV, PARQUET}, compress \in {GZIP, NONE}, env_tag \in {"dev", "prod"} }

\* the calls explored concurrently: two contents for the key of the tests,
\* and a second key of the same base name
ConcurrentCalls == {TestCall}
ConcurrentLines ==
    { CommandLine(Nothing, MaxRows, day, CSV, GZIP, Nothing, "dev") : day \in Days }

\* cli.ingest, lines 36-47: the put call the command makes
IngestCall(dataset, n, day, fmt, compress, target_prefix, env_tag) ==
    LET ds == IF dataset # Nothing THEN dataset ELSE DATASET_NAME
        prefix == IF target_prefix # Nothing THEN target_prefix ELSE DEFAULT_PREFIX
        key == partitioned_key(prefix, ds, day, fmt, 0, compress)
        tags == [env |-> env_tag, dataset |-> ds]
        meta == [schema_version |-> "1"]
    IN  IF fmt = CSV
        THEN PutCall("cli", "put_csv", generate_rides(n, day), key,
                     IF compress = NONE THEN Nothing ELSE GZIP, Nothing, tags, meta)
        ELSE PutCall("cli", "put_parquet", generate_rides(n, day), key,
                     Nothing, Nothing, tags, meta)

\* required_columns or list(df.columns)
Required(c) == IF c.required_columns # <<>> THEN c.required_columns ELSE c.df.columns
\* metadata or {"schema_version": "1"}
Metadata(c) == IF DOMAIN c.metadata # {} THEN c.metadata ELSE [schema_version |-> "1"]
\* tags or {}
Tags(c) == c.tags

\* put_csv lines 94-102, put_parquet lines 117-119: the bytes handed to the writer
Encode(c, clock) ==
    IF c.api = "put_csv"
    THEN IF c.compress = GZIP THEN gzip_bytes(to_csv(c.df), clock) ELSE to_csv(c.df)
    ELSE to_parquet(c.df)

\* ------------------------------------------------------------------- state
VARIABLES
    store,        \* the bucket: key -> object
    now,          \* the wall clock, in milliseconds
    pc,           \* per writer: where its call stands
    call,         \* per writer: the arguments of its call
    data,         \* per writer: the encoded bytes (data of _put_bytes_atomic)
    staging_key,  \* per writer: staging_key of _put_bytes_atomic
    result,       \* per writer: the value the call returned
    err,          \* per writer: the exception the call raised
    ops,          \* per writer: the store requests the call has issued
    before,       \* per writer: what final_key held when the call began
    prev,         \* per writer: how the call ended of which this one is a repeat
    out,          \* per writer: what the ingest command reported
    retries,      \* per writer: the retries made so far of the request in flight
    pure          \* the last application of a pure function: name, arguments, value

vars == <<store, now, pc, call, data, staging_key, result, err, ops, before, prev, out, retries, pure>>

NoBytes == [format |-> "none", header |-> <<>>, body |-> <<>>, gz |-> <<>>]
NoErr == [error |-> "ok", step |-> "none", status |-> 0, message |-> <<>>]
NoPrev == [outcome |-> "none", step |-> "none", data |-> NoBytes, copied |-> FALSE, matched |-> FALSE]
NoOut == [log |-> <<>>, exit |-> -1]
NoPure == [fn |-> "none", args |-> <<>>, ret |-> <<>>]

Error(error, step, status, message) ==
    [error |-> error, step |-> step, status |-> status, message |-> message]

\* objects a bucket may hold before any call: one uploaded by another tool,
\* without content_sha256, and one this writer committed at clock 0
ForeignObject == Obj([NoBytes EXCEPT !.format = "foreign"], <<>>, <<>>)

Committed(c, clock) ==
    Obj(Encode(c, clock), WithSha(Metadata(c), sha256_bytes(Encode(c, clock))), <<>>)

InitialObjects ==
    {ForeignObject} \cup
    {Committed(PutCall("lib", api, TestFrame, TestKey, IF api = "put_csv" THEN GZIP ELSE Nothing,
                       Nothing, Nothing, Nothing), 0) : api \in {"put_csv", "put_parquet"}}

Init ==
    /\ store \in {<<>>} \cup {[k \in {TestKey} |-> o] : o \in InitialObjects}
    /\ now = 0
    /\ pc = [w \in Writers |-> "idle"]
    /\ call = [w \in Writers |-> NoCall]
    /\ data = [w \in Writers |-> NoBytes]
    /\ staging_key = [w \in Writers |-> <<>>]
    /\ result = [w \in Writers |-> "none"]
    /\ err = [w \in Writers |-> NoErr]
    /\ ops = [w \in Writers |-> <<>>]
    /\ before = [w \in Writers |-> <<>>]
    /\ prev = [w \in Writers |-> NoPrev]
    /\ out = [w \in Writers |-> NoOut]
    /\ retries = [w \in Writers |-> 0]
    /\ pure = NoPure

\* ----------------------------------------------------------- call outcomes
\* a variant of Raise under which the ingest command catches the exception,
\* logs a result and exits 0
RaiseSwallowed(w, via, e) ==
    /\ pc' = [pc EXCEPT ![w] = "failed"]
    /\ err' = [err EXCEPT ![w] = e]
    /\ out' = [out EXCEPT ![w] =
                 IF via = "cli" THEN [log |-> <<"Ingest result", "none", <<>>>>, exit |-> 0] ELSE @]

\* The call raises: the exception leaves put_csv / put_parquet and, under the
\* ingest command, leaves the command, which exits non-zero without a report.
Raise(w, via, e) ==
    /\ pc' = [pc EXCEPT ![w] = "failed"]
    /\ err' = [err EXCEPT ![w] = e]
    /\ out' = [out EXCEPT ![w] = IF via = "cli" THEN [log |-> <<>>, exit |-> 1] ELSE @]

\* The call returns r; cli.ingest line 48 then logs the result.
Return(w, r) ==
    /\ pc' = [pc EXCEPT ![w] = "done"]
    /\ result' = [result EXCEPT ![w] = r]
    /\ out' = [out EXCEPT ![w] =
                 IF call[w].via = "cli"
                 THEN [log |-> <<"Ingest result", r, call[w].key>>, exit |-> 0]
                 ELSE @]

\* a variant of SameContent that reads the hash under another metadata key
SameContentOtherKey(head, content_sha) ==
    /\ "sha256" \in DOMAIN head.Metadata
    /\ head.Metadata["sha256"] = content_sha

\* a variant of SameContent that also takes an object without content_sha256
\* for a duplicate
SameContentIfAny(head, content_sha) ==
    "content_sha256" \in DOMAIN head.Metadata => head.Metadata["content_sha256"] = content_sha

\* head.get("Metadata", {}).get("content_sha256") == content_sha
SameContent(head, content_sha) ==
    /\ "content_sha256" \in DOMAIN head.Metadata
    /\ head.Metadata["content_sha256"] = content_sha

\* whether an optional object carries the content_sha256 of these bytes
Matched(o, bytes) ==
    o # <<>> /\ SameContent([Metadata |-> o[1].meta], sha256_bytes(bytes))

\* whether the copy to final_key of writer w's current call has succeeded
Copied(w) ==
    \/ pc[w] = "delete"
    \/ pc[w] \in {"failed", "cancelled"} /\ err[w].step = "delete"
    \/ pc[w] = "done" /\ result[w] = "uploaded"

\* a variant of Enter that encodes and enters the writer without validating
EnterUnvalidated(w, c) ==
    /\ call' = [call EXCEPT ![w] = c]
    /\ ops' = [ops EXCEPT ![w] = <<>>]
    /\ result' = [result EXCEPT ![w] = "none"]
    /\ staging_key' = [staging_key EXCEPT ![w] = <<>>]
    /\ before' = [before EXCEPT ![w] = Lookup(store, c.key)]
    /\ retries' = [retries EXCEPT ![w] = 0]
    /\ data' = [data EXCEPT ![w] = Encode(c, now)]
    /\ pc' = [pc EXCEPT ![w] = "head"]
    /\ err' = [err EXCEPT ![w] = NoErr]
    /\ out' = [out EXCEPT ![w] = NoOut]
    /\ UNCHANGED <<store, now, pure>>

\* put_csv lines 93-103 / put_parquet lines 116-120: validate, encode, and
\* enter _put_bytes_atomic
Enter(w, c) ==
    /\ call' = [call EXCEPT ![w] = c]
    /\ ops' = [ops EXCEPT ![w] = <<>>]
    /\ result' = [result EXCEPT ![w] = "none"]
    /\ staging_key' = [staging_key EXCEPT ![w] = <<>>]
    /\ before' = [before EXCEPT ![w] = Lookup(store, c.key)]
    /\ retries' = [retries EXCEPT ![w] = 0]
    /\ LET v == basic_validate(c.df, Required(c))
       IN  IF v.error # "ok"
           THEN /\ data' = [data EXCEPT ![w] = NoBytes]
                /\ Raise(w, c.via, Error(v.error, "validate", 0, v.message))
           ELSE /\ data' = [data EXCEPT ![w] = Encode(c, now)]
                /\ pc' = [pc EXCEPT ![w] = "head"]
                /\ err' = [err EXCEPT ![w] = NoErr]
                /\ out' = [out EXCEPT ![w] = NoOut]
    /\ UNCHANGED <<store, now, pure>>

\* ----------------------------------------------------------------- actions
\* A caller invokes put_csv or put_parquet on the client, with one of `calls`.
lib_call(w, calls) ==
    /\ pc[w] = "idle"
    /\ \E c \in calls : Enter(w, c)
    /\ UNCHANGED prev

\* cli.ingest, with one of the command lines `lines`: generate raises for a
\* data set other than rides, before any client exists.
ingest(w, lines) ==
    /\ pc[w] = "idle"
    /\ \E a \in lines :
          LET ds == IF a.dataset # Nothing THEN a.dataset ELSE DATASET_NAME
          IN  IF ds # RIDES
              THEN /\ call' = [call EXCEPT ![w] = [NoCall EXCEPT !.via = "cli"]]
                   /\ Raise(w, "cli", Error("ValueError", "generate", 0,
                                            <<"Only 'rides' is implemented by default.">>))
                   /\ UNCHANGED <<store, now, data, staging_key, result, ops, before, retries, pure>>
              ELSE Enter(w, IngestCall(a.dataset, a.n, a.day, a.fmt, a.compress,
                                       a.target_prefix, a.env_tag))
    /\ UNCHANGED prev

\* The same call is made once more with the same arguments (a second ingest
\* of the same data, or the retry of a failed write); it encodes afresh.
retry(w) ==
    /\ pc[w] \in {"done", "failed"}
    /\ prev[w] = NoPrev
    /\ call[w].api # "none"
    /\ prev' = [prev EXCEPT ![w] =
                  [outcome |-> IF pc[w] = "done" THEN result[w] ELSE "failed",
                   step |-> err[w].step, data |-> data[w], copied |-> Copied(w),
                   matched |-> Matched(before[w], data[w])]]
    /\ Enter(w, call[w])

\* BotoConfig(retries={"max_attempts": 8, "mode": "standard"}): botocore reads
\* max_attempts of a client Config as the number of retries made after the
\* first attempt of a request
max_attempts == 8
\* the statuses the standard retry mode retries
TransientStatuses == {500}

\* Whether the client hands the response of this status to the caller: a
\* transient error is retried while retries are left, and surfaces once
\* they are exhausted; any other response surfaces at once.
Surfaces(w, status) == status \in TransientStatuses => retries[w] >= max_attempts

\* A request that has been answered leaves no retry pending for the next one.
Answered(w) == retries' = [retries EXCEPT ![w] = IF pc'[w] = "failed" THEN @ ELSE 0]

\* botocore's retry handler: the attempt in flight fails with a transient
\* error and the request is sent again
resend(w) ==
    /\ pc[w] \in {"head", "put", "copy", "delete"}
    /\ retries[w] < max_attempts
    /\ retries' = [retries EXCEPT ![w] = @ + 1]
    /\ UNCHANGED <<store, now, pc, call, data, staging_key, result, err, ops, before, prev, out, pure>>

\* what head_object answers: the object's metadata, 404 for a missing key,
\* or another error status
HeadResponses(s, k) ==
    (IF k \in DOMAIN s THEN {[status |-> 200, Metadata |-> s[k].meta]}
                       ELSE {[status |-> NotFoundStatus, Metadata |-> <<>>]})
    \cup {[status |-> st, Metadata |-> <<>>] : st \in ErrStatuses}

\* a variant of head_object that, on a duplicate, brings the stored metadata
\* up to the caller's before it returns "skipped"
head_object_refreshing_metadata(w) ==
    /\ pc[w] = "head"
    /\ ops' = [ops EXCEPT ![w] = Append(@, "head")]
    /\ \E head \in HeadResponses(store, call[w].key) :
          /\ Surfaces(w, head.status)
          /\ IF head.status = 200
             THEN IF SameContent(head, sha256_bytes(data[w]))
                  THEN /\ Return(w, "skipped") /\ UNCHANGED err
                       /\ store' = [store EXCEPT ![call[w].key].meta =
                                       WithSha(Metadata(call[w]), sha256_bytes(data[w]))]
                  ELSE /\ pc' = [pc EXCEPT ![w] = "stage"]
                       /\ UNCHANGED <<store, result, err, out>>
             ELSE IF head.status # NotFoundStatus
                  THEN Raise(w, call[w].via, Error("ClientError", "head", head.status, <<>>))
                       /\ UNCHANGED <<store, result>>
                  ELSE /\ pc' = [pc EXCEPT ![w] = "stage"]
                       /\ UNCHANGED <<store, result, err, out>>
    /\ Answered(w)
    /\ UNCHANGED <<now, call, data, staging_key, before, prev, pure>>

\* a variant of head_object that lets every ClientError through, the
\* not-found one included
head_object_raising_not_found(w) ==
    /\ pc[w] = "head"
    /\ ops' = [ops EXCEPT ![w] = Append(@, "head")]
    /\ \E head \in HeadResponses(store, call[w].key) :
          /\ Surfaces(w, head.status)
          /\ IF head.status = 200
             THEN IF SameContent(head, sha256_bytes(data[w]))
                  THEN Return(w, "skipped") /\ UNCHANGED err
                  ELSE pc' = [pc EXCEPT ![w] = "stage"] /\ UNCHANGED <<result, err, out>>
             ELSE Raise(w, call[w].via, Error("ClientError", "head", head.status, <<>>))
                  /\ UNCHANGED result
    /\ Answered(w)
    /\ UNCHANGED <<store, now, call, data, staging_key, before, prev, pure>>

\* StorageClient.exists on the answer of head_object: what it returns, or
\* the error it raises
exists(head) ==
    IF head.status = 200 THEN [returns |-> <<TRUE>>, raises |-> <<>>]
    ELSE IF head.status = NotFoundStatus THEN [returns |-> <<FALSE>>, raises |-> <<>>]
    ELSE [returns |-> <<>>, raises |-> <<Error("ClientError", "head", head.status, <<>>)>>]

\* A caller asks whether a key exists.
call_exists ==
    /\ pure = NoPure
    /\ \E key \in {TestKey, SomeKey} :
          \E head \in HeadResponses(store, key) :
             pure' = [fn |-> "exists", args |-> <<key, head>>, ret |-> exists(head)]
    /\ UNCHANGED <<store, now, pc, call, data, staging_key, result, err, ops, before, prev, out, retries>>

\* _put_bytes_atomic lines 56-65
head_object(w) ==
    /\ pc[w] = "head"
    /\ ops' = [ops EXCEPT ![w] = Append(@, "head")]
    /\ \E head \in HeadResponses(store, call[w].key) :
          /\ Surfaces(w, head.status)
          /\ IF head.status = 200
             THEN IF SameContent(head, sha256_bytes(data[w]))
                  THEN Return(w, "skipped") /\ UNCHANGED err
                  ELSE pc' = [pc EXCEPT ![w] = "stage"] /\ UNCHANGED <<result, err, out>>
             ELSE IF head.status # NotFoundStatus
                  THEN Raise(w, call[w].via, Error("ClientError", "head", head.status, <<>>))
                       /\ UNCHANGED result
                  ELSE pc' = [pc EXCEPT ![w] = "stage"] /\ UNCHANGED <<result, err, out>>
    /\ Answered(w)
    /\ UNCHANGED <<store, now, call, data, staging_key, before, prev, pure>>

\* _put_bytes_atomic line 66
make_staging_key(w) ==
    /\ pc[w] = "stage"
    /\ staging_key' = [staging_key EXCEPT ![w] = StagingKey(now, call[w].key)]
    /\ pc' = [pc EXCEPT ![w] = "put"]
    /\ UNCHANGED <<store, now, call, data, result, err, ops, before, prev, out, retries, pure>>

\* a variant of upload_fileobj that uploads to final_key itself
upload_fileobj_in_place(w) ==
    /\ pc[w] = "put"
    /\ ops' = [ops EXCEPT ![w] = Append(@, "put")]
    /\ store' = PutObject(store, call[w].key,
                   Obj(data[w], WithSha(Metadata(call[w]), sha256_bytes(data[w])), <<>>))
    /\ pc' = [pc EXCEPT ![w] = "copy"]
    /\ Answered(w)
    /\ UNCHANGED <<now, call, data, staging_key, result, err, before, prev, out, pure>>

\* _put_bytes_atomic lines 67-74: the staging object carries no tags
upload_fileobj(w) ==
    /\ pc[w] = "put"
    /\ ops' = [ops EXCEPT ![w] = Append(@, "put")]
    /\ \/ /\ store' = PutObject(store, staging_key[w],
                         Obj(data[w], WithSha(Metadata(call[w]), sha256_bytes(data[w])), <<>>))
          /\ pc' = [pc EXCEPT ![w] = "copy"]
          /\ UNCHANGED <<err, out>>
       \/ /\ \E st \in ErrStatuses :
                /\ Surfaces(w, st)
                /\ Raise(w, call[w].via, Error("S3UploadFailedError", "put", st, <<>>))
          /\ UNCHANGED store
    /\ Answered(w)
    /\ UNCHANGED <<now, call, data, staging_key, result, before, prev, pure>>

\* a variant of copy_object that deletes the staging object when the copy
\* fails
copy_object_cleaning_up(w) ==
    /\ pc[w] = "copy"
    /\ ops' = [ops EXCEPT ![w] = Append(@, "copy")]
    /\ \/ /\ staging_key[w] \in DOMAIN store
          /\ store' = CopyObject(store, staging_key[w], call[w].key, "REPLACE",
                                 WithSha(Metadata(call[w]), sha256_bytes(data[w])),
                                 "COPY", Tags(call[w]))
          /\ pc' = [pc EXCEPT ![w] = "delete"]
          /\ UNCHANGED <<err, out>>
       \/ /\ staging_key[w] \notin DOMAIN store
          /\ Raise(w, call[w].via, Error("ClientError", "copy", NotFoundStatus, <<"NoSuchKey">>))
          /\ UNCHANGED store
       \/ /\ \E st \in ErrStatuses :
                /\ Surfaces(w, st)
                /\ Raise(w, call[w].via, Error("ClientError", "copy", st, <<>>))
          /\ store' = DeleteObject(store, staging_key[w])
    /\ Answered(w)
    /\ UNCHANGED <<now, call, data, staging_key, result, before, prev, pure>>

\* _put_bytes_atomic lines 75-84: MetadataDirective is REPLACE; no
\* TaggingDirective is given, so the store applies COPY to the tags
copy_object(w) ==
    /\ pc[w] = "copy"
    /\ ops' = [ops EXCEPT ![w] = Append(@, "copy")]
    /\ \/ /\ staging_key[w] \in DOMAIN store
          /\ store' = CopyObject(store, staging_key[w], call[w].key, "REPLACE",
                                 WithSha(Metadata(call[w]), sha256_bytes(data[w])),
                                 "COPY", Tags(call[w]))
          /\ pc' = [pc EXCEPT ![w] = "delete"]
          /\ UNCHANGED <<err, out>>
       \/ /\ staging_key[w] \notin DOMAIN store
          /\ Raise(w, call[w].via, Error("ClientError", "copy", NotFoundStatus, <<"NoSuchKey">>))
          /\ UNCHANGED store
       \/ /\ \E st \in ErrStatuses :
                /\ Surfaces(w, st)
                /\ Raise(w, call[w].via, Error("ClientError", "copy", st, <<>>))
          /\ UNCHANGED store
    /\ Answered(w)
    /\ UNCHANGED <<now, call, data, staging_key, result, before, prev, pure>>

\* _put_bytes_atomic lines 85-86: delete_object is not guarded, so its
\* failure leaves the call as an exception
delete_object(w) ==
    /\ pc[w] = "delete"
    /\ ops' = [ops EXCEPT ![w] = Append(@, "delete")]
    /\ \/ /\ store' = DeleteObject(store, staging_key[w])
          /\ Return(w, "uploaded")
          /\ UNCHANGED err
       \/ /\ \E st \in ErrStatuses :
                /\ Surfaces(w, st)
                /\ Raise(w, call[w].via, Error("ClientError", "delete", st, <<>>))
          /\ UNCHANGED <<store, result>>
    /\ Answered(w)
    /\ UNCHANGED <<now, call, data, staging_key, before, prev, pure>>

\* The caller abandons the call between two requests (an interrupt, a killed
\* process): a request in flight has either been applied or not.
cancel(w) ==
    /\ pc[w] \in {"head", "stage", "put", "copy", "delete"}
    /\ pc' = [pc EXCEPT ![w] = "cancelled"]
    /\ err' = [err EXCEPT ![w] = Error("KeyboardInterrupt", pc[w], 0, <<>>)]
    /\ out' = [out EXCEPT ![w] = IF call[w].via = "cli" THEN [log |-> <<>>, exit |-> 1] ELSE @]
    /\ UNCHANGED <<store, now, call, data, staging_key, result, ops, before, prev, retries, pure>>

\* time.time() advances: by a millisecond, or to the next second (seconds
\* are explored up to max_sec)
tick(max_sec) ==
    /\ \E t \in {now + 1, ((now \div MsPerSec) + 1) * MsPerSec} :
          /\ t \div MsPerSec <= max_sec
          /\ t % MsPerSec <= MaxMs
          /\ now' = t
    /\ UNCHANGED <<store, pc, call, data, staging_key, result, err, ops, before, prev, out, retries, pure>>

\* ---------------------------------------------------------- pure functions
\* One application of a pure function to arguments from bounded sets.
Prefixes ==
    { <<"c","u","r","a","t","e","d">>, <<"c","u","r","a","t","e","d","/">>,
      <<"c","u","r","a","t","e","d","/","/">>, <<>>, <<"/">>, <<"a","/","b","/">> }
Parts == {0, 7, 42, 99999, 100000}

call_partitioned_key ==
    /\ pure = NoPure
    /\ \E prefix \in Prefixes, dataset \in {RIDES, ORDERS}, day \in Days,
          ext \in {CSV, PARQUET}, part \in Parts, compress \in {GZIP, NONE, Nothing} :
          pure' = [fn |-> "partitioned_key",
                   args |-> <<prefix, dataset, day, ext, part, compress>>,
                   ret |-> partitioned_key(prefix, dataset, day, ext, part, compress)]
    /\ UNCHANGED <<store, now, pc, call, data, staging_key, result, err, ops, before, prev, out, retries>>

Frames ==
    {TestFrame, NoColumnFrame, NoFrame, [columns |-> <<"a", "b">>, nrows |-> 0, cells |-> <<>>]}
        \cup {generate_rides(n, Day1) : n \in 0..MaxRows}
ColumnNames == {"a", "b", "ride_id"}
RequiredLists ==
    {<<>>} \cup {<<x>> : x \in ColumnNames} \cup {<<x, y>> : x \in ColumnNames, y \in ColumnNames}

call_basic_validate ==
    /\ pure = NoPure
    /\ \E df \in Frames, required_columns \in RequiredLists :
          pure' = [fn |-> "basic_validate", args |-> <<df, required_columns>>,
                   ret |-> basic_validate(df, required_columns)]
    /\ UNCHANGED <<store, now, pc, call, data, staging_key, result, err, ops, before, prev, out, retries>>

\* config.Settings.PRESIGN_DEFAULT_EXPIRES
PRESIGN_DEFAULT_EXPIRES == 900

\* An Optional[int] argument is <<>> when it is not given (None) and <<n>>
\* when the caller passes n.
\* `expires or int(settings.PRESIGN_DEFAULT_EXPIRES)`: Python's `or` yields
\* its right operand when the left one is None or 0
ExpiresOrDefault(expires) ==
    IF expires # Nothing /\ expires[1] # 0 THEN expires[1] ELSE PRESIGN_DEFAULT_EXPIRES

\* StorageClient.presign_get: the request the URL signs and its lifetime
presign_get(key, expires) ==
    [ClientMethod |-> "get_object", Key |-> key, ExpiresIn |-> ExpiresOrDefault(expires)]

\* StorageClient.presign_put
presign_put(key, expires) ==
    [ClientMethod |-> "put_object", Key |-> key, ExpiresIn |-> ExpiresOrDefault(expires)]

\* the lifetimes a caller passes, in seconds
Expiries == {<<n>> : n \in {0, 1, 300, 900, 3600}}

call_presign ==
    /\ pure = NoPure
    /\ \E key \in {SomeKey, TestKey}, expires \in {Nothing} \cup Expiries :
          \/ pure' = [fn |-> "presign_get", args |-> <<key, expires>>,
                      ret |-> presign_get(key, expires)]
          \/ pure' = [fn |-> "presign_put", args |-> <<key, expires>>,
                      ret |-> presign_put(key, expires)]
    /\ UNCHANGED <<store, now, pc, call, data, staging_key, result, err, ops, before, prev, out, retries>>

\* One step of writer w's call, once begun.
Step(w) ==
    \/ head_object(w)
    \/ make_staging_key(w)
    \/ upload_fileobj(w)
    \/ copy_object(w)
    \/ delete_object(w)
    \/ cancel(w)

\* Two writers run concurrently against one bucket: w1 makes the call of the
\* tests, w2 the same call or an ingest that meets it at the final key or at
\* the base name. The clock stays within one second, and every request is
\* answered at its first attempt.
Next ==
    \/ tick(0)
    \/ lib_call("w1", ConcurrentCalls)
    \/ lib_call("w2", ConcurrentCalls)
    \/ ingest("w2", ConcurrentLines)
    \/ \E w \in Writers : Step(w)

Spec == Init /\ [][Next]_vars

\* One writer alone, over every call and command line, each made once more
\* after it ends; every request is answered at its first attempt.
NextSolo ==
    \/ tick(MaxSec)
    \/ lib_call("w1", LibCalls)
    \/ ingest("w1", CommandLines)
    \/ retry("w1")
    \/ Step("w1")

SpecSolo == Init /\ [][NextSolo]_vars

\* One writer alone making the call of the tests, every request of which
\* may fail transiently and be retried by the client. A call that has begun
\* is not left waiting: its next response arrives. A caller may also ask
\* once whether a key exists.
NextRetry ==
    \/ tick(0)
    \/ lib_call("w1", ConcurrentCalls)
    \/ call_exists
    \/ resend("w1")
    \/ Step("w1")

SpecRetry == Init /\ [][NextRetry]_vars /\ WF_vars(resend("w1") \/ Step("w1"))

\* The pure functions alone.
NextPure ==
    \/ call_partitioned_key
    \/ call_basic_validate
    \/ call_presign

SpecPure == Init /\ [][NextPure]_vars

\* ================================================================== claims
\* the call of writer w has ended, by returning, raising or being abandoned
Ended(w) == pc[w] \in {"done", "failed", "cancelled"}
\* the metadata a committed object of writer w's call carries
CommittedMeta(w) == WithSha(Metadata(call[w]), sha256_bytes(data[w]))

\* C1: put_csv(df, K, compress="gzip") made twice in a row by the only
\* writer, neither call failing, returns "uploaded" or "skipped" the first
\* time and "skipped" the second time.
C1_RepeatedPutCsvSkips ==
    \A w \in Writers :
        ( /\ call[w].api = "put_csv" /\ call[w].compress = GZIP
          /\ prev[w].outcome \in {"uploaded", "skipped"}
          /\ pc[w] = "done" )
        => result[w] = "skipped"

\* C2: the object readable at a final key is what the key held when the
\* call began, or the complete bytes of some call whose copy to that key
\* succeeded.
C2_NoPartialVisibility ==
    \A w \in Writers :
        (call[w].api # "none" /\ call[w].key \in DOMAIN store)
        => \/ Lookup(store, call[w].key) = before[w]
           \/ \E v \in Writers :
                 /\ call[v].key = call[w].key
                 /\ Copied(v)
                 /\ store[call[w].key].bytes = data[v]

\* C3: once two calls on one final key have both ended, and a copy has
\* landed, the key holds the bytes and the metadata of one and the same
\* call whose copy landed, never one call's bytes under the other's metadata.
C3_NoMixtureAfterConcurrentWrites ==
    ( /\ \A w \in Writers : Ended(w) /\ call[w].api # "none"
      /\ \A w, v \in Writers : call[w].key = call[v].key
      /\ \E v \in Writers : Copied(v) )
    => \E v \in Writers :
          /\ Copied(v)
          /\ store[call[v].key].bytes = data[v]
          /\ store[call[v].key].meta = CommittedMeta(v)

\* C4: a call that raises at the head, at the staging put or at the copy
\* leaves final_key as it was when the call began (no other call having
\* committed to that key).
C4_FailedWriteLeavesFinalKey ==
    \A w \in Writers :
        ( /\ pc[w] = "failed" /\ err[w].step \in {"head", "put", "copy"}
          /\ \A v \in Writers \ {w} : call[v].key = call[w].key => ~Copied(v) )
        => Lookup(store, call[w].key) = before[w]

\* a call has raised at the copy, over an object that final_key already held
C4_Witness ==
    \E w \in Writers :
        /\ pc[w] = "failed" /\ err[w].step = "copy"
        /\ before[w] # <<>>
        /\ staging_key[w] \in DOMAIN store

\* C5: a call whose copy has succeeded and which has issued its delete of
\* the staging key returns "uploaded" whether or not that delete succeeds,
\* and final_key holds the committed content.
C5_StagingCleanupIsBestEffort ==
    \A w \in Writers :
        ( /\ ops[w] # <<>> /\ ops[w][Len(ops[w])] = "delete"
          /\ pc[w] # "cancelled" )
        => /\ pc[w] = "done" /\ result[w] = "uploaded"
           /\ call[w].key \in DOMAIN store

\* a call has raised at its delete of the staging key
C5_DeleteFailed ==
    \E w \in Writers : pc[w] = "failed" /\ err[w].step = "delete"

\* final_key holds the bytes of writer w's call under their content_sha256
HoldsOwnContent(w) ==
    /\ call[w].key \in DOMAIN store
    /\ store[call[w].key].bytes = data[w]
    /\ "content_sha256" \in DOMAIN store[call[w].key].meta
    /\ store[call[w].key].meta["content_sha256"] = sha256_bytes(data[w])

\* the call of writer w is the full re-run, now ended without failure, of a
\* write of the same bytes that had raised at a store request
RetriedAfterFailure(w) ==
    /\ prev[w].outcome = "failed"
    /\ prev[w].step \in {"head", "put", "copy", "delete"}
    /\ data[w] = prev[w].data
    /\ pc[w] = "done"

\* C6 as stated: the re-run returns "skipped" if the failed attempt's copy
\* had succeeded and "uploaded" otherwise, and K ends up holding B under
\* content_sha256 = hash(B).
C6_RetryAsStated ==
    \A w \in Writers :
        RetriedAfterFailure(w)
        => /\ result[w] = IF prev[w].copied THEN "skipped" ELSE "uploaded"
           /\ HoldsOwnContent(w)

\* C6 as amended: the re-run returns "skipped" if the failed attempt's copy
\* had succeeded or K already held an object with content_sha256 = hash(B)
\* when the failed attempt began, and "uploaded" otherwise; either way K
\* ends up holding B under content_sha256 = hash(B).
C6_RetryAfterFailure ==
    \A w \in Writers :
        RetriedAfterFailure(w)
        => /\ result[w] = IF prev[w].copied \/ prev[w].matched THEN "skipped" ELSE "uploaded"
           /\ HoldsOwnContent(w)

\* a re-run has skipped after a failed delete, over a key that held other
\* content when the failed attempt began
C6_Witness ==
    \E w \in Writers :
        /\ RetriedAfterFailure(w)
        /\ prev[w].step = "delete" /\ ~prev[w].matched
        /\ result[w] = "skipped"

\* the payload of call c is empty or lacks a required column
InvalidPayload(c) ==
    \/ c.df.nrows = 0
    \/ c.df.columns = <<>>
    \/ \E i \in 1..Len(c.required_columns) :
          \A j \in 1..Len(c.df.columns) : c.df.columns[j] # c.required_columns[i]

\* C7: put_csv or put_parquet on an invalid payload raises the validation
\* error having issued no store request, final_key being as it was.
C7_ValidationPrecedesStore ==
    \A w \in Writers :
        (call[w].api # "none" /\ InvalidPayload(call[w]))
        => /\ pc[w] = "failed"
           /\ err[w].error = "ValueError" /\ err[w].step = "validate"
           /\ ops[w] = <<>>
           /\ Lookup(store, call[w].key) = before[w]

\* a put_parquet call has been refused for a missing column, over a bucket
\* that holds an object
C7_Witness ==
    \E w \in Writers :
        /\ call[w].api = "put_parquet"
        /\ pc[w] = "failed" /\ err[w].step = "validate"
        /\ Len(err[w].message) > 1
        /\ DOMAIN store # {}

\* C8: the ingest command logs "Ingest result" only once the write has
\* returned "uploaded", its copy having committed final_key, or "skipped",
\* final_key having been found with matching content; when the call raises
\* (validation, generation, or the store) it logs nothing and exits non-zero.
C8_IngestReportsOnlyAfterCommit ==
    \A w \in Writers :
        call[w].via = "cli"
        => /\ out[w].log # <<>>
              => /\ pc[w] = "done" /\ out[w].exit = 0
                 /\ out[w].log = <<"Ingest result", result[w], call[w].key>>
                 /\ \/ /\ result[w] = "uploaded"
                       /\ ops[w] = <<"head", "put", "copy", "delete">>
                       /\ HoldsOwnContent(w)
                    \/ /\ result[w] = "skipped"
                       /\ ops[w] = <<"head">>
                       /\ Matched(before[w], data[w])
           /\ pc[w] = "failed" => (out[w].log = <<>> /\ out[w].exit = 1)
           /\ pc[w] = "done" => out[w].log # <<>>

\* an ingest has reported "uploaded"
C8_Witness ==
    \E w \in Writers :
        /\ call[w].via = "cli" /\ pc[w] = "done"
        /\ out[w].log # <<>> /\ out[w].log[2] = "uploaded"

\* the error basic_validate raises for an empty frame
EmptyError == [error |-> "ValueError", message |-> <<"DataFrame is empty.">>]

\* C9: basic_validate raises the empty-frame error for every frame with zero
\* rows (or no column), whatever the required columns; for every other
\* frame it raises the missing-columns error listing exactly the required
\* columns the frame lacks, and succeeds iff it lacks none.
C9_ValidationOutcomes ==
    pure.fn = "basic_validate"
    => LET df == pure.args[1]
           required == pure.args[2]
           absent == {i \in 1..Len(required) :
                        \A j \in 1..Len(df.columns) : df.columns[j] # required[i]}
           listed == Tail(pure.ret.message)
       IN  /\ df.nrows = 0 => pure.ret = EmptyError
           /\ df.columns = <<>> => pure.ret = EmptyError
           /\ (df.nrows > 0 /\ df.columns # <<>>)
              => /\ pure.ret.error = "ok" <=> absent = {}
                 /\ absent # {}
                    => /\ pure.ret.error = "ValueError"
                       /\ pure.ret.message[1] = "Missing required columns"
                       /\ Len(listed) = Cardinality(absent)
                       /\ {listed[i] : i \in 1..Len(listed)} = {required[i] : i \in absent}

\* basic_validate has been applied to a frame with zero rows that also
\* lacks a required column
C9_Witness ==
    /\ pure.fn = "basic_validate"
    /\ pure.args[1].nrows = 0
    /\ pure.args[1].columns = <<"a", "b">>
    /\ pure.args[2] = <<"ride_id">>

\* the key the claim describes, from the arguments
ExpectedKey(prefix, dataset, day, ext, part, compress) ==
    LET stripped ==
            CHOOSE p \in {SubSeq(prefix, 1, i) : i \in 0..Len(prefix)} :
                /\ p = <<>> \/ p[Len(p)] # "/"
                /\ \A j \in (Len(p) + 1)..Len(prefix) : prefix[j] = "/"
        width ==
            IF part < 10^PartWidth THEN PartWidth
            ELSE CHOOSE n \in 1..12 : 10^(n - 1) <= part /\ part < 10^n
        padded == [i \in 1..width |-> Digit[((part \div 10^(width - i)) % 10) + 1]]
        suffix == IF compress = GZIP /\ ext = CSV
                  THEN <<".","c","s","v",".","g","z">>
                  ELSE <<".">> \o ext
    IN  stripped \o <<"/">> \o dataset \o <<"/","d","a","t","e","=">> \o day
            \o <<"/","p","a","r","t","-">> \o padded \o suffix

\* C10: partitioned_key(prefix, dataset, day, ext, part, compress) is the
\* prefix without its trailing slashes, "/", the data set, "/date=", the
\* day, "/part-", the part number zero-padded to 5 digits, and ".csv.gz"
\* when compress is gzip and ext is csv, "." and ext otherwise; for
\* ("curated", "rides", "2025-09-21", "csv", 0, "gzip") it is
\* "curated/rides/date=2025-09-21/part-00000.csv.gz".
C10_KeyConstruction ==
    pure.fn = "partitioned_key"
    => /\ pure.ret = ExpectedKey(pure.args[1], pure.args[2], pure.args[3],
                                 pure.args[4], pure.args[5], pure.args[6])
       /\ pure.args = <<<<"c","u","r","a","t","e","d">>, RIDES, Day1, CSV, 0, GZIP>>
          => pure.ret = <<"c","u","r","a","t","e","d","/","r","i","d","e","s","/",
                          "d","a","t","e","=","2","0","2","5","-","0","9","-","2","1","/",
                          "p","a","r","t","-","0","0","0","0","0",".","c","s","v",".","g","z">>

\* partitioned_key has been applied to a prefix with two trailing slashes
\* and a part number of one digit, for a gzip csv
C10_Witness ==
    /\ pure.fn = "partitioned_key"
    /\ pure.args[1] = <<"c","u","r","a","t","e","d","/","/">>
    /\ pure.args[4] = CSV /\ pure.args[5] = 7 /\ pure.args[6] = GZIP

\* C11: the URL presign_get or presign_put returns lives for the caller's
\* expires whenever the caller passes one (0 included), and for
\* PRESIGN_DEFAULT_EXPIRES only when the caller passes none.
C11_PresignTtlSelection ==
    pure.fn \in {"presign_get", "presign_put"}
    => pure.ret.ExpiresIn = IF pure.args[2] = Nothing THEN PRESIGN_DEFAULT_EXPIRES
                            ELSE pure.args[2][1]

\* the attempts made so far of the request of writer w in flight, the one
\* awaiting its response included
Attempts(w) == retries[w] + 1

\* C12: no request of a write call is attempted more than 8 times in total;
\* a transient error of the 8th attempt surfaces and the call fails.
C12_AtMostEightAttempts ==
    \A w \in Writers :
        /\ pc[w] \in {"head", "put", "copy", "delete"} => Attempts(w) <= 8
        /\ (pc[w] = "failed" /\ err[w].status \in TransientStatuses) => Attempts(w) = 8

\* every write call that has begun ends, by returning, raising or being
\* abandoned
C12_Terminates == \A w \in Writers : (pc[w] # "idle") ~> Ended(w)

\* final_key of writer w holds an object whose metadata carries the
\* content_sha256 of the bytes w is writing
FinalKeyMatches(w) ==
    /\ call[w].key \in DOMAIN store
    /\ "content_sha256" \in DOMAIN store[call[w].key].meta
    /\ store[call[w].key].meta["content_sha256"] = sha256_bytes(data[w])

\* C13: the call returns "skipped" exactly on a head response that finds at
\* final_key an object with content_sha256 = hash of the bytes; it has then
\* issued the head and no other request, and the store is unchanged. On
\* every other answered head (another content_sha256, none, or no object)
\* it goes on to the staging key and the upload, and from there to the copy.
C13_SkipDecision ==
    [][\A w \in Writers :
        /\ (pc[w] = "head" /\ pc'[w] = "done")
           => /\ FinalKeyMatches(w)
              /\ result'[w] = "skipped"
              /\ ops'[w] = <<"head">>
              /\ store' = store
        /\ (pc[w] = "head" /\ pc'[w] \notin {"head", "failed", "cancelled"} /\ ~FinalKeyMatches(w))
           => /\ pc'[w] = "stage"
              /\ result'[w] = "none"
              /\ store' = store
        /\ (pc[w] = "head" /\ pc'[w] = "stage") => ~FinalKeyMatches(w)
        /\ (result'[w] = "skipped" /\ pc'[w] = "done") => pc[w] \in {"head", "done"}
        /\ (pc[w] = "stage" /\ pc'[w] \notin {"stage", "cancelled"})
           => pc'[w] = "put" /\ ops'[w] = <<"head">>
        /\ (pc[w] = "put" /\ pc'[w] \notin {"put", "failed", "cancelled"})
           => pc'[w] = "copy" /\ ops'[w] = <<"head", "put">>
    ]_vars

\* a first call has been skipped over an object the bucket already held,
\* whose other metadata differ from the call's
C13_Witness ==
    \E w \in Writers :
        /\ pc[w] = "done" /\ result[w] = "skipped" /\ prev[w] = NoPrev
        /\ store[call[w].key].meta # CommittedMeta(w)

\* two mappings of strings to strings are the same mapping
SameDict(a, b) == DOMAIN a = DOMAIN b /\ \A k \in DOMAIN a : a[k] = b[k]

\* C14: once a call with no concurrent writer has returned "uploaded",
\* final_key holds the call's bytes, its metadata are the call's metadata
\* plus content_sha256 = hash of the bytes and nothing else, its tags are
\* the call's tags, and the call's staging key holds no object.
C14_UploadedPostcondition ==
    \A w \in Writers :
        (pc[w] = "done" /\ result[w] = "uploaded")
        => /\ call[w].key \in DOMAIN store
           /\ store[call[w].key].bytes = data[w]
           /\ SameDict(store[call[w].key].meta, CommittedMeta(w))
           /\ SameDict(store[call[w].key].tags, Tags(call[w]))
           /\ staging_key[w] \notin DOMAIN store

\* the call of writer w is in flight and has been given its staging key
Staged(w) == pc[w] \in {"put", "copy", "delete"}

\* C15: the staging key of a call in flight is "staging/", a clock reading
\* in milliseconds that is not in the future, "-" and the base name of
\* final_key; and no two calls in flight at the same time, on the same
\* final_key or not, have the same staging key.
C15_StagingKeyFreshness ==
    /\ \A w \in Writers :
          Staged(w) => \E t \in 0..now : staging_key[w] = StagingKey(t, call[w].key)
    /\ \A w, v \in Writers :
          (w # v /\ Staged(w) /\ Staged(v)) => staging_key[w] # staging_key[v]

\* C16: a call whose upload to the staging key fails has changed nothing in
\* the store, none of its steps having written; a call whose copy fails has
\* changed the object at its staging key and nothing else, and that object,
\* holding the call's bytes, stays in the store, final_key being as it was
\* when the call began.
C16_TracesOfFailedWrite ==
    [][\A w \in Writers :
        /\ (pc[w] \in {"head", "stage", "put"} /\ pc'[w] # pc[w] /\ pc'[w] # "copy")
           => store' = store
        /\ (pc[w] = "put" /\ pc'[w] = "copy")
           => /\ \A k \in (DOMAIN store \cup DOMAIN store') \ {staging_key[w]} :
                    Lookup(store', k) = Lookup(store, k)
              /\ staging_key[w] \in DOMAIN store'
        /\ (pc[w] = "copy" /\ pc'[w] = "failed") => store' = store
        /\ (pc'[w] = "failed" /\ err'[w].step = "put")
           => /\ ops'[w] = <<"head", "put">>
              /\ Lookup(store', call'[w].key) = before'[w]
        /\ (pc'[w] = "failed" /\ err'[w].step = "copy")
           => /\ ops'[w] = <<"head", "put", "copy">>
              /\ Lookup(store', call'[w].key) = before'[w]
              /\ staging_key'[w] \in DOMAIN store'
              /\ store'[staging_key'[w]].bytes = data'[w]
    ]_vars

\* a call that had failed at its upload has been made again and has failed
\* at its copy, over an object that final_key already held
C16_Witness ==
    \E w \in Writers :
        /\ prev[w].outcome = "failed" /\ prev[w].step = "put"
        /\ pc[w] = "failed" /\ err[w].step = "copy"
        /\ before[w] # <<>>

\* C17: exists returns True for a key that holds an object, False when
\* head answers 404, and raises the error of any other status. A write
\* whose head answers 404 goes on to the staging key, and never returns or
\* raises there; a write whose head fails with another status raises that
\* ClientError having issued the head alone, with no staging key made and
\* the store untouched.
C17_NotFoundIsNormal ==
    [][/\ pure'.fn = "exists"
          => LET head == pure'.args[2]
             IN  /\ head.status = 200 => pure'.ret = [returns |-> <<TRUE>>, raises |-> <<>>]
                 /\ head.status = NotFoundStatus
                    => pure'.ret = [returns |-> <<FALSE>>, raises |-> <<>>]
                 /\ head.status \notin {200, NotFoundStatus}
                    => /\ pure'.ret.returns = <<>>
                       /\ Len(pure'.ret.raises) = 1
                       /\ pure'.ret.raises[1].error = "ClientError"
                       /\ pure'.ret.raises[1].status = head.status
       /\ \A w \in Writers :
             /\ (pc[w] = "head" /\ pc'[w] = "failed")
                => /\ err'[w].error = "ClientError" /\ err'[w].step = "head"
                   /\ err'[w].status # NotFoundStatus
                   /\ ops'[w] = <<"head">>
                   /\ staging_key'[w] = <<>>
                   /\ store' = store
             /\ (pc[w] = "head" /\ pc'[w] = "done") => call[w].key \in DOMAIN store
             /\ (pc[w] = "head" /\ pc'[w] = "stage" /\ call[w].key \notin DOMAIN store)
                => /\ err'[w] = NoErr
                   /\ ops'[w] = <<"head">>
             /\ (pc'[w] = "failed" /\ err'[w].step = "head")
                => /\ staging_key'[w] = <<>>
                   /\ ops'[w] = <<"head">>
    ]_vars

\* a write over a missing key has gone past its head to the upload, and
\* exists has answered False for a missing key
C17_Witness ==
    /\ pure.fn = "exists" /\ pure.ret.returns = <<FALSE>>
    /\ \E w \in Writers :
          /\ before[w] = <<>> /\ pc[w] = "copy"
          /\ ops[w] = <<"head", "put">>

\* the final keys of the calls made so far
FinalKeys == {call[w].key : w \in {v \in Writers : call[v].api # "none"}}

\* C18: in every reachable state, an object at a final key that carries
\* content_sha256 (one this writer stored) carries the hash of the bytes it
\* holds.
C18_ShaMatchesBytes ==
    \A k \in FinalKeys \cap DOMAIN store :
        "content_sha256" \in DOMAIN store[k].meta
        => store[k].meta["content_sha256"] = sha256_bytes(store[k].bytes)

\* C19: of two calls on different final keys, in any interleaving, neither
\* changes what the other's final key holds (that key is as its call found
\* it until its own copy, and holds its own bytes and metadata after),
\* and neither makes the other's copy fail for want of its staging object.
C19_IsolationBetweenKeys ==
    \A w, v \in Writers :
        ( /\ w # v /\ call[w].api # "none" /\ call[v].api # "none"
          /\ call[w].key # call[v].key )
        => /\ ~Copied(v) => Lookup(store, call[v].key) = before[v]
           /\ Copied(v)
              => /\ call[v].key \in DOMAIN store
                 /\ store[call[v].key].bytes = data[v]
                 /\ store[call[v].key].meta = CommittedMeta(v)
           /\ ~(pc[v] = "failed" /\ err[v].step = "copy" /\ err[v].status = NotFoundStatus)

\* the metadata and tags of writer w's call are not those final_key holds
OtherMetadataAndTags(w) ==
    /\ call[w].key \in DOMAIN store
    /\ ~SameDict(store[call[w].key].meta, CommittedMeta(w))
    /\ ~SameDict(store[call[w].key].tags, Tags(call[w]))

\* C20: a write whose head finds at final_key the content_sha256 of its
\* bytes returns "skipped" whatever metadata and tags it was given, those
\* of the stored object differing or not, and the stored object keeps its
\* bytes, metadata and tags: the caller's are not applied.
C20_SkipDependsOnBytesOnly ==
    [][\A w \in Writers :
        /\ (pc[w] = "head" /\ FinalKeyMatches(w) /\ pc'[w] \notin {"head", "failed", "cancelled"})
           => /\ pc'[w] = "done" /\ result'[w] = "skipped"
              /\ Lookup(store', call[w].key) = Lookup(store, call[w].key)
        /\ (pc'[w] = "done" /\ result'[w] = "skipped")
           => /\ Lookup(store', call'[w].key) = before'[w]
              /\ staging_key'[w] = <<>>
    ]_vars

\* a call given metadata schema_version 2 and a tag has been skipped over an
\* object stored with schema_version 1 and no tag
C20_Witness ==
    \E w \in Writers :
        /\ pc[w] = "done" /\ result[w] = "skipped"
        /\ OtherMetadataAndTags(w)
        /\ Metadata(call[w]) = [schema_version |-> "2"]
        /\ store[call[w].key].meta["schema_version"] = "1"

====
